---- MODULE Spec2Model ----
(***************************************************************************)
(* The expression core of VRL: lib/vrl/compiler/src/expression.rs.         *)
(*                                                                         *)
(* Two families of behaviour are modelled.                                 *)
(*   - The error taxonomy: the compile-time Error (Fallible, Missing), the *)
(*     runtime ExpressionError (Abort, Error), their DiagnosticError       *)
(*     implementations and the From<String> / From<&str> conversions.      *)
(*     Specification DiagSpec.                                             *)
(*   - The Expr tagged union: its as_str, its Expression implementation    *)
(*     (resolve, as_value, type_def, and the trait defaults it inherits    *)
(*     for update_state and format), its Display and its From             *)
(*     conversions.  Specification Spec.                                   *)
(*                                                                         *)
(* Text that the code formats or copies (messages, label texts, feature    *)
(* names) is a sequence of one-character strings, so that formatting,      *)
(* copying and "contains" are computed and not assumed.                    *)
(***************************************************************************)
EXTENDS Integers, Sequences, FiniteSets, TLC

VARIABLES
    features,   \* the cargo features the crate was built with
    program,    \* the root Expr the compiler produced, or NoExpr
    state,      \* the compile-time State threaded through update_state
    ctx,        \* the runtime Context handed to resolve
    last,       \* the last call made on the program and what it returned
    error,      \* the error value last constructed, or NoError
    source,     \* the plain text an error was converted from, or NoSource
    report      \* what the DiagnosticError contract read from error

vars == <<features, program, state, ctx, last, error, source, report>>

\* ------------------------------------------------------------------ bounds

\* Source positions are 0 .. MaxSpan.
MaxSpan == 2

\* Longest plain text message converted into an ExpressionError.
MaxLen == 2

\* Most labels a generic ExpressionError::Error is built with.
MaxLabels == 2

\* Most children of a Block, Array or Object container.
MaxChildren == 2

\* -------------------------------------------------------------------- text

\* The grave accent character (U+0060), which a string literal here cannot
\* hold; it stands for that one character wherever a text contains it.
Backtick ==
    "U+0060"

\* Cargo feature guarding the Abort case (expression.rs:6,34,118)
Feature_abort ==
    <<"e", "x", "p", "r", "-", "a", "b", "o", "r", "t">>

\* Cargo feature guarding the IfStatement case (expression.rs:12,106)
Feature_if_statement ==
    <<"e", "x", "p", "r", "-", "i", "f", "_", "s", "t", "a", "t", "e", "m",
      "e", "n", "t">>

\* Cargo feature guarding the Unary case (expression.rs:16,116)
Feature_unary ==
    <<"e", "x", "p", "r", "-", "u", "n", "a", "r", "y">>

\* Cargo feature guarding the Op case (expression.rs:19,108)
Feature_op ==
    <<"e", "x", "p", "r", "-", "o", "p">>

\* Cargo feature guarding the FunctionCall case (expression.rs:27,112)
Feature_function_call ==
    <<"e", "x", "p", "r", "-", "f", "u", "n", "c", "t", "i", "o", "n", "_",
      "c", "a", "l", "l">>

\* #[error("unhandled error")]
Txt_unhandled_error ==
    <<"u", "n", "h", "a", "n", "d", "l", "e", "d", " ", "e", "r", "r", "o",
      "r">>

\* #[error("expression type unavailable")]
Txt_expression_type_unavailable ==
    <<"e", "x", "p", "r", "e", "s", "s", "i", "o", "n", " ", "t", "y", "p",
      "e", " ", "u", "n", "a", "v", "a", "i", "l", "a", "b", "l", "e">>

\* primary label of Fallible
Txt_can_result_in_runtime_error ==
    <<"e", "x", "p", "r", "e", "s", "s", "i", "o", "n", " ", "c", "a", "n",
      " ", "r", "e", "s", "u", "l", "t", " ", "i", "n", " ", "r", "u", "n",
      "t", "i", "m", "e", " ", "e", "r", "r", "o", "r">>

\* context label of Fallible
Txt_handle_the_error_case ==
    <<"h", "a", "n", "d", "l", "e", " ", "t", "h", "e", " ", "e", "r", "r",
      "o", "r", " ", "c", "a", "s", "e", " ", "t", "o", " ", "e", "n", "s",
      "u", "r", "e", " ", "r", "u", "n", "t", "i", "m", "e", " ", "s", "u",
      "c", "c", "e", "s", "s">>

\* primary label of Missing
Txt_type_is_disabled ==
    <<"e", "x", "p", "r", "e", "s", "s", "i", "o", "n", " ", "t", "y", "p",
      "e", " ", "i", "s", " ", "d", "i", "s", "a", "b", "l", "e", "d", " ",
      "i", "n", " ", "t", "h", "i", "s", " ", "v", "e", "r", "s", "i", "o",
      "n", " ", "o", "f", " ", "v", "r", "l">>

\* format string of the Missing context label, before {}
Txt_build_vrl_using ==
    <<"b", "u", "i", "l", "d", " ", "v", "r", "l", " ", "u", "s", "i", "n",
      "g", " ", "t", "h", "e", " ", Backtick>>

\* format string of the Missing context label, after {}
Txt_feature_to_enable ==
    <<Backtick, " ", "f", "e", "a", "t", "u", "r", "e", " ", "t", "o", " ", "e",
      "n", "a", "b", "l", "e", " ", "i", "t">>

\* message and label of ExpressionError::Abort
Txt_aborted ==
    <<"a", "b", "o", "r", "t", "e", "d">>

\* The feature names of the crate's #[cfg(feature = ...)] attributes.
FeatureFlags ==
    {Feature_abort, Feature_if_statement, Feature_unary, Feature_op,
     Feature_function_call}

\* Whether text t occurs in text s as a contiguous run of characters.
Contains(s, t) ==
    \E i \in 1..(Len(s) - Len(t) + 1) : SubSeq(s, i, i + Len(t) - 1) = t

\* All texts over the alphabet {"a", "b"} of length at most n.
Texts(n) ==
    UNION {[1..k -> {"a", "b"}] : k \in 0..n}

\* All sequences over S of length at most n.
SeqUpTo(S, n) ==
    UNION {[1..k -> S] : k \in 0..n}

\* ------------------------------------------------------------- diagnostics

\* A Span is a half-open range of source positions.
Span(start, end) ==
    [start |-> start, end |-> end]

Spans ==
    {Span(s, s + 1) : s \in 0..MaxSpan}

\* diagnostic::Label::primary
Label_primary(message, span) ==
    [message |-> message, role |-> "primary", span |-> span]

\* diagnostic::Label::context
Label_context(message, span) ==
    [message |-> message, role |-> "context", span |-> span]

\* diagnostic::Note, the variants used here
Note_SeeErrorDocs ==
    "SeeErrorDocs"

Note_SeeLangDocs ==
    "SeeLangDocs"

\* Format_build_vrl_using with one flag's name written into the text.
Format_build_vrl_using_fixed(feature) ==
    Txt_build_vrl_using \o Feature_unary \o Txt_feature_to_enable

\* format!("build vrl using the {}-in-grave-accents feature to enable it", feature)
Format_build_vrl_using(feature) ==
    Txt_build_vrl_using \o feature \o Txt_feature_to_enable

\* ------------------------------------------------- compile-time Error enum

\* Error::Fallible { span }
Error_Fallible(span) ==
    [family |-> "Error", case |-> "Fallible", span |-> span]

\* Error::Missing { span, feature }
Error_Missing(span, feature) ==
    [family |-> "Error", case |-> "Missing", span |-> span,
     feature |-> feature]

\* The Display text thiserror derives from the #[error(...)] attributes.
Error_to_string(e) ==
    IF e.case = "Fallible"
    THEN Txt_unhandled_error
    ELSE Txt_expression_type_unavailable

\* Error_code with the two codes exchanged.
Error_code_swapped(e) ==
    IF e.case = "Fallible" THEN 900 ELSE 100

\* <Error as DiagnosticError>::code
Error_code(e) ==
    IF e.case = "Fallible" THEN 100 ELSE 900

\* <Error as DiagnosticError>::message is the trait's default, the Display text
Error_message(e) ==
    Error_to_string(e)

\* <Error as DiagnosticError>::labels
Error_labels(e) ==
    IF e.case = "Fallible"
    THEN <<Label_primary(Txt_can_result_in_runtime_error, e.span),
           Label_context(Txt_handle_the_error_case, e.span)>>
    ELSE <<Label_primary(Txt_type_is_disabled, e.span),
           Label_context(Format_build_vrl_using(e.feature), e.span)>>

\* <Error as DiagnosticError>::notes
Error_notes(e) ==
    IF e.case = "Fallible" THEN <<Note_SeeErrorDocs>> ELSE <<>>

\* --------------------------------------------- runtime ExpressionError enum

\* ExpressionError::Abort { span }, present under feature expr-abort
ExpressionError_Abort(span) ==
    [family |-> "ExpressionError", case |-> "Abort", span |-> span]

\* ExpressionError::Error { message, labels, notes }
ExpressionError_Error(message, labels, notes) ==
    [family |-> "ExpressionError", case |-> "Error", message |-> message,
     labels |-> labels, notes |-> notes]

\* String::clone and str::to_owned: a fresh buffer holding the same characters
to_owned(s) ==
    [i \in 1..Len(s) |-> s[i]]

\* Vec::clone
Vec_clone(v) ==
    [i \in 1..Len(v) |-> v[i]]

\* ExpressionError_code giving the abort a code of its own.
ExpressionError_code_by_case(e) ==
    IF e.case = "Abort" THEN 100 ELSE 0

\* <ExpressionError as DiagnosticError>::code
ExpressionError_code(e) ==
    0

\* <ExpressionError as DiagnosticError>::message
ExpressionError_message(e) ==
    IF e.case = "Abort" THEN to_owned(Txt_aborted) ELSE to_owned(e.message)

\* ExpressionError_labels with no label for the abort.
ExpressionError_labels_abort_empty(e) ==
    IF e.case = "Abort" THEN <<>> ELSE Vec_clone(e.labels)

\* <ExpressionError as DiagnosticError>::labels
ExpressionError_labels(e) ==
    IF e.case = "Abort"
    THEN <<Label_primary(Txt_aborted, e.span)>>
    ELSE Vec_clone(e.labels)

\* <ExpressionError as DiagnosticError>::notes
ExpressionError_notes(e) ==
    IF e.case = "Abort" THEN <<>> ELSE Vec_clone(e.notes)

\* <ExpressionError as Display>::fmt writes self.message()
ExpressionError_fmt(e) ==
    ExpressionError_message(e)

\* From_String attaching the "see error docs" note.
From_String_with_note(message) ==
    ExpressionError_Error(message, <<>>, <<Note_SeeErrorDocs>>)

\* impl From<String> for ExpressionError
From_String(message) ==
    ExpressionError_Error(message, <<>>, <<>>)

\* impl From<&str> for ExpressionError: message.to_owned().into()
From_str(message) ==
    From_String(to_owned(message))

\* The four readings of the DiagnosticError contract, by the error's own impl.
Diagnostic(e) ==
    IF e.family = "Error"
    THEN [code |-> Error_code(e), message |-> Error_message(e),
          labels |-> Error_labels(e), notes |-> Error_notes(e)]
    ELSE [code |-> ExpressionError_code(e),
          message |-> ExpressionError_message(e),
          labels |-> ExpressionError_labels(e),
          notes |-> ExpressionError_notes(e)]

\* ------------------------------------------------------ values and results

None ==
    [some |-> FALSE]

Some(x) ==
    [some |-> TRUE, value |-> x]

\* Result::Ok and Result::Err
Ok(x) ==
    [ok |-> TRUE, value |-> x]

Err(e) ==
    [ok |-> FALSE, error |-> e]

\* crate::Value, as far as resolution here produces it
Value_Null ==
    [kind |-> "null"]

Value_Integer(n) ==
    [kind |-> "integer", n |-> n]

Value_Array(items) ==
    [kind |-> "array", items |-> items]

Value_Object(items) ==
    [kind |-> "object", items |-> items]

\* The event a Context carries into resolve.
Events ==
    {Value_Null, Value_Integer(7)}

\* crate::Context: the event being transformed, and (history) the spans of
\* the nodes whose own resolve has run against it, in order.
Context(event) ==
    [event |-> event, trace |-> <<>>]

NoExpr ==
    [tag |-> "None"]

NoCall ==
    [op |-> "none"]

NoError ==
    [family |-> "None"]

NoSource ==
    [type |-> "None"]

NoReport ==
    [read |-> FALSE]

\* ------------------------------------------- the wrapped node implementers
\* Every case of Expr but Container wraps a node type defined in its own
\* module (literal.rs, op.rs, function_call.rs, ...).  Such a node is a
\* record of what its implementation of Expression does:
\*   outcome  what its resolve returns: "value", "null", "event" (the
\*            context's event), "error" (a generic Error), "plain" (a generic
\*            Error converted from plain text) or "abort";
\*   update   what its update_state does: "default", "register" (adds the
\*            fact named by its span to the State) or "fail";
\*   format   what its format returns: "default" (None) or "text".
Node(type, span, outcome, update, format) ==
    [type |-> type, span |-> span, outcome |-> outcome, update |-> update,
     format |-> format]

\* The feature a node type is compiled under, or <<>> when it always is.
FeatureOf(type) ==
    CASE type = "Abort" -> Feature_abort
      [] type = "IfStatement" -> Feature_if_statement
      [] type = "Unary" -> Feature_unary
      [] type = "Op" -> Feature_op
      [] type = "FunctionCall" -> Feature_function_call
      [] OTHER -> <<>>

Txt_bad ==
    <<"b", "a", "d">>

\* The runtime error a failing node reports: function calls a full
\* diagnostic, the others a plain text message converted with into().
NodeError(v) ==
    IF v.outcome = "plain"
    THEN From_str(Txt_bad)
    ELSE ExpressionError_Error(
             Txt_bad,
             <<Label_primary(Txt_bad, v.span), Label_context(<<>>, v.span)>>,
             <<Note_SeeLangDocs, Note_SeeErrorDocs>>)

\* <node as Expression>::resolve
Wrapped_resolve(v, c) ==
    LET c2 == [c EXCEPT !.trace = Append(@, v.span)] IN
    [ctx |-> c2,
     res |-> CASE v.outcome = "value" -> Ok(Value_Integer(v.span.start))
               [] v.outcome = "null" -> Ok(Value_Null)
               [] v.outcome = "event" -> Ok(c.event)
               [] v.outcome = "abort" -> Err(ExpressionError_Abort(v.span))
               [] OTHER -> Err(NodeError(v))]

\* <node as Expression>::as_value
Wrapped_as_value(v) ==
    IF v.type = "Literal" THEN Some(Value_Integer(v.span.start)) ELSE None

\* <node as Expression>::type_def
Wrapped_type_def(v, s) ==
    [fallible |-> v.outcome \in {"error", "plain", "abort"},
     known |-> v.span.start \in s]

\* <node as Expression>::update_state
Wrapped_update_state(v, s) ==
    CASE v.update = "register" ->
             [state |-> s \cup {v.span.start}, res |-> Ok(<<>>)]
      [] v.update = "fail" -> [state |-> s, res |-> Err(From_str(Txt_bad))]
      [] OTHER -> [state |-> s, res |-> Ok(<<>>)]

\* <node as Expression>::format
Wrapped_format(v) ==
    IF v.format = "text" THEN Some(<<"f", "(", ")">>) ELSE None

\* <node as Display>::fmt
Wrapped_fmt(v) ==
    <<v.type>>

\* ------------------------------------------------------------- the Expr enum

\* container::Container { variant }: Group wraps one expression, Block, Array
\* and Object a list of them.
Container(variant, inner, span) ==
    [type |-> "Container", variant |-> variant, inner |-> inner,
     span |-> span]

\* impl From<Literal> for Expr, ..., impl From<Abort> for Expr: the case is
\* chosen by the type of the node wrapped.
Expr_from(v) ==
    [tag |-> v.type, v |-> v]

RECURSIVE Expr_resolve(_, _)
RECURSIVE Expr_as_value(_)
RECURSIVE Expr_type_def(_, _)
RECURSIVE Expr_fmt(_)
RECURSIVE ResolveFrom(_, _, _, _)
RECURSIVE ValuesFrom(_, _, _)
RECURSIVE FmtFrom(_, _, _)

\* The children's resolve in order; the first Err ends the iteration, as
\* collecting an iterator of Results into a Result does.
ResolveFrom(exprs, i, values, c) ==
    IF i > Len(exprs)
    THEN [ctx |-> c, res |-> Ok(values)]
    ELSE LET r == Expr_resolve(exprs[i], c) IN
         IF r.res.ok
         THEN ResolveFrom(exprs, i + 1, Append(values, r.res.value), r.ctx)
         ELSE r

\* <Container as Expression>::resolve
Container_resolve(v, c) ==
    IF v.variant = "Group"
    THEN Expr_resolve(v.inner[1], c)
    ELSE LET r == ResolveFrom(v.inner, 1, <<>>, c) IN
         IF ~r.res.ok
         THEN r
         ELSE [ctx |-> r.ctx,
               res |-> CASE v.variant = "Block" ->
                                IF r.res.value = <<>>
                                THEN Ok(Value_Null)
                                ELSE Ok(r.res.value[Len(r.res.value)])
                         [] v.variant = "Array" ->
                                Ok(Value_Array(r.res.value))
                         [] OTHER -> Ok(Value_Object(r.res.value))]

\* The children's static values in order, None as soon as one has none.
ValuesFrom(exprs, i, values) ==
    IF i > Len(exprs)
    THEN Some(values)
    ELSE LET r == Expr_as_value(exprs[i]) IN
         IF r.some
         THEN ValuesFrom(exprs, i + 1, Append(values, r.value))
         ELSE None

\* <Container as Expression>::as_value
Container_as_value(v) ==
    CASE v.variant = "Group" -> Expr_as_value(v.inner[1])
      [] v.variant = "Block" -> None
      [] OTHER ->
             LET r == ValuesFrom(v.inner, 1, <<>>) IN
             IF ~r.some
             THEN None
             ELSE IF v.variant = "Array"
                  THEN Some(Value_Array(r.value))
                  ELSE Some(Value_Object(r.value))

\* <Container as Expression>::type_def
Container_type_def(v, s) ==
    [fallible |->
         \E i \in 1..Len(v.inner) : Expr_type_def(v.inner[i], s).fallible,
     known |-> FALSE]

\* The children's Display text, in order.
FmtFrom(exprs, i, text) ==
    IF i > Len(exprs)
    THEN text
    ELSE FmtFrom(exprs, i + 1, text \o Expr_fmt(exprs[i]))

\* <Container as Display>::fmt
Container_fmt(v) ==
    CASE v.variant = "Group" -> <<"(">> \o Expr_fmt(v.inner[1]) \o <<")">>
      [] v.variant = "Array" -> <<"[">> \o FmtFrom(v.inner, 1, <<>>) \o <<"]">>
      [] OTHER -> <<"{">> \o FmtFrom(v.inner, 1, <<>>) \o <<"}">>

\* Expr_as_str with one label for every container.
Expr_as_str_container(e) ==
    CASE e.tag = "Literal" -> "literal"
      [] e.tag = "Container" -> "container"
      [] e.tag = "IfStatement" -> "if-statement"
      [] e.tag = "Op" -> "operation"
      [] e.tag = "Assignment" -> "assignment"
      [] e.tag = "Query" -> "query"
      [] e.tag = "FunctionCall" -> "function call"
      [] e.tag = "Variable" -> "variable call"
      [] e.tag = "Noop" -> "noop"
      [] e.tag = "Unary" -> "unary operation"
      [] e.tag = "Abort" -> "abort operation"

\* Expr::as_str
Expr_as_str(e) ==
    CASE e.tag = "Literal" -> "literal"
      [] e.tag = "Container" ->
             (CASE e.v.variant = "Group" -> "group"
                [] e.v.variant = "Block" -> "block"
                [] e.v.variant = "Array" -> "array"
                [] e.v.variant = "Object" -> "object")
      [] e.tag = "IfStatement" -> "if-statement"
      [] e.tag = "Op" -> "operation"
      [] e.tag = "Assignment" -> "assignment"
      [] e.tag = "Query" -> "query"
      [] e.tag = "FunctionCall" -> "function call"
      [] e.tag = "Variable" -> "variable call"
      [] e.tag = "Noop" -> "noop"
      [] e.tag = "Unary" -> "unary operation"
      [] e.tag = "Abort" -> "abort operation"

\* Expr_resolve with the FunctionCall arm turning the node's error into text
\* and back: v.resolve(ctx).map_err(|e| e.to_string().into()).
Expr_resolve_rewraps(e, c) ==
    IF e.tag = "Container"
    THEN Container_resolve(e.v, c)
    ELSE LET r == Wrapped_resolve(e.v, c) IN
         IF e.tag = "FunctionCall" /\ ~r.res.ok
         THEN [r EXCEPT !.res = Err(From_String(ExpressionError_fmt(@.error)))]
         ELSE r

\* Expr_resolve with the Abort arm reporting a generic error for the abort.
Expr_resolve_abort_as_error(e, c) ==
    IF e.tag = "Container"
    THEN Container_resolve(e.v, c)
    ELSE LET r == Wrapped_resolve(e.v, c) IN
         IF e.tag = "Abort"
         THEN [r EXCEPT !.res = Err(From_str(Txt_aborted))]
         ELSE r

\* <Expr as Expression>::resolve
Expr_resolve(e, c) ==
    CASE e.tag = "Literal" -> Wrapped_resolve(e.v, c)
      [] e.tag = "Container" -> Container_resolve(e.v, c)
      [] e.tag = "IfStatement" -> Wrapped_resolve(e.v, c)
      [] e.tag = "Op" -> Wrapped_resolve(e.v, c)
      [] e.tag = "Assignment" -> Wrapped_resolve(e.v, c)
      [] e.tag = "Query" -> Wrapped_resolve(e.v, c)
      [] e.tag = "FunctionCall" -> Wrapped_resolve(e.v, c)
      [] e.tag = "Variable" -> Wrapped_resolve(e.v, c)
      [] e.tag = "Noop" -> Wrapped_resolve(e.v, c)
      [] e.tag = "Unary" -> Wrapped_resolve(e.v, c)
      [] e.tag = "Abort" -> Wrapped_resolve(e.v, c)

\* <Expr as Expression>::as_value
Expr_as_value(e) ==
    CASE e.tag = "Literal" -> Wrapped_as_value(e.v)
      [] e.tag = "Container" -> Container_as_value(e.v)
      [] e.tag = "IfStatement" -> Wrapped_as_value(e.v)
      [] e.tag = "Op" -> Wrapped_as_value(e.v)
      [] e.tag = "Assignment" -> Wrapped_as_value(e.v)
      [] e.tag = "Query" -> Wrapped_as_value(e.v)
      [] e.tag = "FunctionCall" -> Wrapped_as_value(e.v)
      [] e.tag = "Variable" -> Wrapped_as_value(e.v)
      [] e.tag = "Noop" -> Wrapped_as_value(e.v)
      [] e.tag = "Unary" -> Wrapped_as_value(e.v)
      [] e.tag = "Abort" -> Wrapped_as_value(e.v)

\* <Expr as Expression>::type_def
Expr_type_def(e, s) ==
    CASE e.tag = "Literal" -> Wrapped_type_def(e.v, s)
      [] e.tag = "Container" -> Container_type_def(e.v, s)
      [] e.tag = "IfStatement" -> Wrapped_type_def(e.v, s)
      [] e.tag = "Op" -> Wrapped_type_def(e.v, s)
      [] e.tag = "Assignment" -> Wrapped_type_def(e.v, s)
      [] e.tag = "Query" -> Wrapped_type_def(e.v, s)
      [] e.tag = "FunctionCall" -> Wrapped_type_def(e.v, s)
      [] e.tag = "Variable" -> Wrapped_type_def(e.v, s)
      [] e.tag = "Noop" -> Wrapped_type_def(e.v, s)
      [] e.tag = "Unary" -> Wrapped_type_def(e.v, s)
      [] e.tag = "Abort" -> Wrapped_type_def(e.v, s)

\* Expression::update_state, the trait's provided body: Ok(()), State untouched
Expression_update_state(self, s) ==
    [state |-> s, res |-> Ok(<<>>)]

\* Expression::format, the trait's provided body: None
Expression_format(self) ==
    None

\* <Expr as Expression>::update_state: impl Expression for Expr defines
\* resolve, as_value and type_def only, so the provided body is the one run.
Expr_update_state(e, s) ==
    Expression_update_state(e, s)

\* <Expr as Expression>::format: likewise the provided body.
Expr_format(e) ==
    Expression_format(e)

RECURSIVE UpdateFrom(_, _, _)
\* The children's update_state in order; the first failure ends the pass.
UpdateFrom(exprs, i, s) ==
    IF i > Len(exprs)
    THEN [state |-> s, res |-> Ok(<<>>)]
    ELSE LET r == Expr_update_state(exprs[i], s) IN
         IF r.res.ok THEN UpdateFrom(exprs, i + 1, r.state) ELSE r

\* <Container as Expression>::update_state
Container_update_state(v, s) ==
    UpdateFrom(v.inner, 1, s)

\* <Container as Expression>::format
Container_format(v) ==
    None

\* <Expr as Display>::fmt
Expr_fmt(e) ==
    CASE e.tag = "Literal" -> Wrapped_fmt(e.v)
      [] e.tag = "Container" -> Container_fmt(e.v)
      [] e.tag = "IfStatement" -> Wrapped_fmt(e.v)
      [] e.tag = "Op" -> Wrapped_fmt(e.v)
      [] e.tag = "Assignment" -> Wrapped_fmt(e.v)
      [] e.tag = "Query" -> Wrapped_fmt(e.v)
      [] e.tag = "FunctionCall" -> Wrapped_fmt(e.v)
      [] e.tag = "Variable" -> Wrapped_fmt(e.v)
      [] e.tag = "Noop" -> Wrapped_fmt(e.v)
      [] e.tag = "Unary" -> Wrapped_fmt(e.v)
      [] e.tag = "Abort" -> Wrapped_fmt(e.v)

\* ------------------------------------------------------------ the programs

\* The nodes the parser can hand over with source span sp, one per node type
\* and behaviour.
LeafNodes(sp) ==
    {Node("Literal", sp, "value", "default", "default"),
     Node("Noop", sp, "null", "default", "default"),
     Node("Variable", sp, "value", "default", "default"),
     Node("Query", sp, "event", "default", "default"),
     Node("Assignment", sp, "value", "register", "default"),
     Node("Assignment", sp, "value", "fail", "default"),
     Node("IfStatement", sp, "null", "default", "default"),
     Node("Op", sp, "value", "default", "default"),
     Node("Op", sp, "plain", "default", "default"),
     Node("FunctionCall", sp, "value", "default", "text"),
     Node("FunctionCall", sp, "error", "default", "text"),
     Node("Unary", sp, "value", "default", "default"),
     Node("Unary", sp, "plain", "default", "default"),
     Node("Abort", sp, "abort", "default", "default")}

\* The expressions a container holds at span sp: a node, or a group of one.
ChildExprs(sp) ==
    LET leaves == {Node("Literal", sp, "value", "default", "default"),
                   Node("Query", sp, "event", "default", "default"),
                   Node("Assignment", sp, "value", "register", "default"),
                   Node("Op", sp, "plain", "default", "default"),
                   Node("FunctionCall", sp, "error", "default", "text"),
                   Node("Abort", sp, "abort", "default", "default")}
        abort == Node("Abort", sp, "abort", "default", "default")
    IN  {Expr_from(v) : v \in leaves}
            \cup {Expr_from(Container("Group", <<Expr_from(abort)>>, sp))}

\* The child lists of length k: child i sits at source positions i-1 .. i.
ChildLists(k) ==
    LET all == UNION {ChildExprs(Span(i - 1, i)) : i \in 1..k} IN
    {inner \in [1..k -> all] :
         \A i \in 1..k : inner[i] \in ChildExprs(Span(i - 1, i))}

\* The root nodes of the programs compiled.
RootNodes ==
    UNION {LeafNodes(sp) : sp \in Spans}
        \cup {Container("Group", <<x>>, Span(0, 1)) : x \in ChildExprs(Span(0, 1))}
        \cup {Container(variant, inner, Span(0, Len(inner))) :
                  variant \in {"Block", "Array", "Object"},
                  inner \in UNION {ChildLists(k) : k \in 0..MaxChildren}}

RECURSIVE NodesOf(_)
\* The nodes of the tree under node v, in source order.
NodesOf(v) ==
    IF v.type # "Container"
    THEN <<v>>
    ELSE LET RECURSIVE Under(_, _)
             Under(i, acc) ==
                 IF i > Len(v.inner)
                 THEN acc
                 ELSE Under(i + 1, acc \o NodesOf(v.inner[i].v))
         IN  Under(1, <<>>)

\* Whether node type t is part of a build with feature set fs.
Enabled(t, fs) ==
    FeatureOf(t) = <<>> \/ FeatureOf(t) \in fs

\* The compiler's answer for root node v in a build with feature set fs: the
\* Expr wrapping it, or Error::Missing for the first node of a type the
\* build leaves out.
Compiled(v, fs) ==
    LET nodes == NodesOf(v)
        off == {i \in 1..Len(nodes) : ~Enabled(nodes[i].type, fs)}
    IN  IF off = {}
        THEN Ok(Expr_from(v))
        ELSE LET first == CHOOSE i \in off : \A j \in off : i <= j IN
             Err(Error_Missing(nodes[first].span,
                               FeatureOf(nodes[first].type)))

\* ----------------------------------------------------------------- actions

Init ==
    /\ features \in SUBSET FeatureFlags
    /\ program = NoExpr
    /\ state = {}
    /\ ctx = Context(Value_Null)
    /\ last = NoCall
    /\ error = NoError
    /\ source = NoSource
    /\ report = NoReport

\* The compiler turns a parsed node into the program's root Expr.
Compile ==
    /\ program = NoExpr
    /\ \E v \in RootNodes :
           LET r == Compiled(v, features) IN
           /\ program' = IF r.ok THEN r.value ELSE NoExpr
           /\ last' = [op |-> "compile", res |-> r]
    /\ UNCHANGED <<features, state, ctx, error, source, report>>

\* program.resolve(&mut ctx) against a fresh context
Resolve ==
    /\ program # NoExpr
    /\ \E event \in Events :
           LET r == Expr_resolve(program, Context(event)) IN
           /\ ctx' = r.ctx
           /\ last' = [op |-> "resolve", event |-> event, res |-> r.res]
    /\ UNCHANGED <<features, program, state, error, source, report>>

\* program.as_value()
AsValue ==
    /\ program # NoExpr
    /\ last' = [op |-> "as_value", res |-> Expr_as_value(program)]
    /\ UNCHANGED <<features, program, state, ctx, error, source, report>>

\* program.type_def(&state)
TypeDef ==
    /\ program # NoExpr
    /\ last' = [op |-> "type_def", res |-> Expr_type_def(program, state)]
    /\ UNCHANGED <<features, program, state, ctx, error, source, report>>

\* program.update_state(&mut state)
UpdateState ==
    /\ program # NoExpr
    /\ LET r == Expr_update_state(program, state) IN
       /\ state' = r.state
       /\ last' = [op |-> "update_state", before |-> state, res |-> r.res]
    /\ UNCHANGED <<features, program, ctx, error, source, report>>

\* program.format()
Format ==
    /\ program # NoExpr
    /\ last' = [op |-> "format", res |-> Expr_format(program)]
    /\ UNCHANGED <<features, program, state, ctx, error, source, report>>

\* program.as_str()
AsStr ==
    /\ program # NoExpr
    /\ last' = [op |-> "as_str", res |-> Expr_as_str(program)]
    /\ UNCHANGED <<features, program, state, ctx, error, source, report>>

\* program.to_string()
Display ==
    /\ program # NoExpr
    /\ last' = [op |-> "fmt", res |-> Expr_fmt(program)]
    /\ UNCHANGED <<features, program, state, ctx, error, source, report>>

Next ==
    \/ Compile
    \/ Resolve
    \/ AsValue
    \/ TypeDef
    \/ UpdateState
    \/ Format
    \/ AsStr
    \/ Display

Spec ==
    Init /\ [][Next]_vars

\* ----------------------------------------------------- actions on errors

\* The label lists a node builds a generic Error with.
LabelPool ==
    {Label_primary(<<"a">>, sp) : sp \in Spans}
        \cup {Label_context(<<"a">>, sp) : sp \in Spans}

\* The note lists a node builds a generic Error with.
NoteLists ==
    {<<>>, <<Note_SeeErrorDocs>>, <<Note_SeeLangDocs, Note_SeeErrorDocs>>}

NewFallible ==
    /\ error = NoError
    /\ \E sp \in Spans : error' = Error_Fallible(sp)
    /\ source' = NoSource
    /\ report' = NoReport
    /\ UNCHANGED <<features, program, state, ctx, last>>

NewMissing ==
    /\ error = NoError
    /\ \E sp \in Spans, feature \in FeatureFlags :
           error' = Error_Missing(sp, feature)
    /\ source' = NoSource
    /\ report' = NoReport
    /\ UNCHANGED <<features, program, state, ctx, last>>

\* ExpressionError::Abort exists in builds with expr-abort only.
NewAbort ==
    /\ error = NoError
    /\ Feature_abort \in features
    /\ \E sp \in Spans : error' = ExpressionError_Abort(sp)
    /\ source' = NoSource
    /\ report' = NoReport
    /\ UNCHANGED <<features, program, state, ctx, last>>

NewError ==
    /\ error = NoError
    /\ \E message \in {<<>>, Txt_bad},
          labels \in SeqUpTo(LabelPool, MaxLabels),
          notes \in NoteLists :
           error' = ExpressionError_Error(message, labels, notes)
    /\ source' = NoSource
    /\ report' = NoReport
    /\ UNCHANGED <<features, program, state, ctx, last>>

\* let e: ExpressionError = message.into(), message a String
IntoFromString ==
    /\ error = NoError
    /\ \E message \in Texts(MaxLen) :
           /\ error' = From_String(message)
           /\ source' = [type |-> "String", text |-> message]
    /\ report' = NoReport
    /\ UNCHANGED <<features, program, state, ctx, last>>

\* let e: ExpressionError = message.into(), message a &str
IntoFromStr ==
    /\ error = NoError
    /\ \E message \in Texts(MaxLen) :
           /\ error' = From_str(message)
           /\ source' = [type |-> "&str", text |-> message]
    /\ report' = NoReport
    /\ UNCHANGED <<features, program, state, ctx, last>>

\* The renderer reads the error through the DiagnosticError contract.
Diagnose ==
    /\ error # NoError
    /\ report = NoReport
    /\ report' = [read |-> TRUE, of |-> Diagnostic(error)]
    /\ UNCHANGED <<features, program, state, ctx, last, error, source>>

DiagNext ==
    \/ NewFallible
    \/ NewMissing
    \/ NewAbort
    \/ NewError
    \/ IntoFromString
    \/ IntoFromStr
    \/ Diagnose

DiagSpec ==
    Init /\ [][DiagNext]_vars

\* ------------------------------------------------------------ properties

\* What the node wrapped by e does by itself, for each capability.
Inner_resolve(e, c) ==
    IF e.tag = "Container"
    THEN Container_resolve(e.v, c)
    ELSE Wrapped_resolve(e.v, c)

Inner_update_state(e, s) ==
    IF e.tag = "Container"
    THEN Container_update_state(e.v, s)
    ELSE Wrapped_update_state(e.v, s)

Inner_format(e) ==
    IF e.tag = "Container" THEN Container_format(e.v) ELSE Wrapped_format(e.v)

\* The nodes of the program, in source order.
ProgramNodes ==
    NodesOf(program.v)

\* The program holds cases of the build only.
TypeOK ==
    program # NoExpr =>
        \A i \in 1..Len(ProgramNodes) :
            Enabled(ProgramNodes[i].type, features)

\* C1: update_state on the Expr leaves the State and returns the outcome
\* that the wrapped node's own update_state gives on the same State.
C1_UpdateStateRouted ==
    last.op = "update_state" =>
        LET w == Inner_update_state(program, last.before) IN
        /\ last.res = w.res
        /\ state = w.state

\* C2: resolve on the Expr returns what the wrapped node's own resolve returns
\* in the same context; an error reaches the caller as the failing node made
\* it: same case, message, labels in order, and notes.
C2_ResolveReturnsWrapped ==
    last.op = "resolve" =>
        LET w == Inner_resolve(program, Context(last.event)) IN
        /\ last.res = w.res
        /\ ctx = w.ctx
        /\ ~last.res.ok =>
               \E i \in 1..Len(ProgramNodes) :
                   /\ ProgramNodes[i].span = ctx.trace[Len(ctx.trace)]
                   /\ Wrapped_resolve(ProgramNodes[i],
                                      Context(last.event)).res = last.res

C2_Witness ==
    /\ last.op = "resolve"
    /\ program.tag = "FunctionCall"
    /\ ~last.res.ok
    /\ last.res.error.case = "Error"
    /\ Len(last.res.error.labels) = 2
    /\ Len(last.res.error.notes) = 2

\* The positions in the trace of resolved nodes that hold an Abort node.
AbortsResolved ==
    {i \in 1..Len(ctx.trace) :
         \E j \in 1..Len(ProgramNodes) :
             /\ ProgramNodes[j].type = "Abort"
             /\ ProgramNodes[j].span = ctx.trace[i]}

C4_EveryErrorHasLabels ==
    report.read => Len(report.of.labels) > 0

\* C4, amended: Fallible, Missing and Abort report at least one label; a
\* generic Error reports the labels it was built with, which are none when
\* it was converted from plain text.
C4_LabelsOfEachCase ==
    report.read =>
        /\ error.case \in {"Fallible", "Missing", "Abort"} =>
               Len(report.of.labels) > 0
        /\ error.case = "Error" => Len(report.of.labels) = Len(error.labels)
        /\ source # NoSource => Len(report.of.labels) = 0

C4_Witness ==
    /\ report.read
    /\ error.case = "Abort"
    /\ Len(report.of.labels) = 1

\* C5: format on the Expr returns what the wrapped node's own format returns.
C5_FormatRouted ==
    last.op = "format" => last.res = Inner_format(program)

\* C6: a plain text message, owned or borrowed, converts into the generic
\* Error whose message reads back as that text and whose labels and notes
\* are empty.
C6_ConversionRoundTrip ==
    source # NoSource =>
        /\ error.family = "ExpressionError"
        /\ error.case = "Error"
        /\ report.read =>
               /\ report.of.message = source.text
               /\ report.of.labels = <<>>
               /\ report.of.notes = <<>>

C6_Witness ==
    /\ report.read
    /\ source.type = "&str"
    /\ source.text = <<"b", "a">>

\* C7: Fallible has code 100 and Missing code 900; each reports a primary
\* label then a context label, both at the error's span; Fallible reports
\* the one note SeeErrorDocs and Missing none.
C7_CompileTimeDiagnostics ==
    (report.read /\ error.family = "Error") =>
        /\ error.case = "Fallible" => report.of.code = 100
        /\ error.case = "Missing" => report.of.code = 900
        /\ Len(report.of.labels) = 2
        /\ report.of.labels[1].role = "primary"
        /\ report.of.labels[2].role = "context"
        /\ report.of.labels[1].span = error.span
        /\ report.of.labels[2].span = error.span
        /\ error.case = "Fallible" => report.of.notes = <<Note_SeeErrorDocs>>
        /\ error.case = "Missing" => report.of.notes = <<>>

C7_Witness ==
    /\ report.read
    /\ error.case = "Fallible"
    /\ error.span = Span(1, 2)

\* C8: the context label of Missing contains the feature name the error
\* stores and no other feature name, and differs from the context label of
\* a Missing error at the same span with any other feature name.
C8_MissingNamesFeature ==
    (report.read /\ error.case = "Missing") =>
        LET remedy == report.of.labels[2] IN
        /\ remedy.role = "context"
        /\ Contains(remedy.message, error.feature)
        /\ \A f \in FeatureFlags \ {error.feature} :
               /\ ~Contains(remedy.message, f)
               /\ Error_labels(Error_Missing(error.span, f))[2] # remedy

C8_Witness ==
    /\ report.read
    /\ error.case = "Missing"
    /\ error.feature = Feature_op

\* C9: every runtime error reports code 0; a generic Error reads back the
\* message, labels and notes it was built with, in order.
C9_RuntimeDiagnostics ==
    (report.read /\ error.family = "ExpressionError") =>
        /\ report.of.code = 0
        /\ error.case = "Error" =>
               /\ report.of.message = error.message
               /\ report.of.labels = error.labels
               /\ report.of.notes = error.notes

C9_Witness ==
    /\ report.read
    /\ error.family = "ExpressionError"
    /\ error.case = "Error"
    /\ Len(error.labels) = 2
    /\ error.labels[1] # error.labels[2]
    /\ Len(error.notes) = 2
    /\ error.message # <<>>

\* Expressions of the same case as e (and, for a container, the same
\* sub-kind) with other contents.
SameCase(e) ==
    IF e.tag = "Container"
    THEN {Expr_from(Container(e.v.variant, inner, Span(0, 1))) :
              inner \in ChildLists(1)}
    ELSE {Expr_from(v) :
              v \in {n \in UNION {LeafNodes(sp) : sp \in Spans} :
                         n.type = e.tag}}

\* C10: as_str returns a non-empty label fixed by the case alone: "literal",
\* "operation", "function call" for those cases, and for a container the
\* name of its sub-kind.
C10_KindName ==
    last.op = "as_str" =>
        /\ last.res # ""
        /\ program.tag = "Literal" => last.res = "literal"
        /\ program.tag = "Op" => last.res = "operation"
        /\ program.tag = "FunctionCall" => last.res = "function call"
        /\ program.tag = "Container" =>
               /\ program.v.variant = "Group" => last.res = "group"
               /\ program.v.variant = "Block" => last.res = "block"
               /\ program.v.variant = "Array" => last.res = "array"
               /\ program.v.variant = "Object" => last.res = "object"
        /\ \A e \in SameCase(program) : Expr_as_str(e) = last.res

C10_Witness ==
    /\ last.op = "as_str"
    /\ program.tag = "Container"
    /\ program.v.variant = "Object"
    /\ Len(program.v.inner) = 2
    /\ last.res = "object"

====
